---------------------------- MODULE Spec2Model ----------------------------
(***************************************************************************)
(* A model of test_server.py: the request handler TestRequestHandler       *)
(* (do_GET, do_POST, do_PUT, do_DELETE, do_PATCH, do_OPTIONS and the       *)
(* response helpers) and the single-threaded HTTPServer loop started by    *)
(* run_server.                                                             *)
(*                                                                         *)
(* Text (str and bytes) is a sequence of pieces, each piece a string.  The *)
(* characters the code splits or searches on ("/", "?", "#", ";", "&",     *)
(* "=", the JSON punctuation, digits and signs) are always pieces of their *)
(* own, so split, startswith, find and int() are computed piece by piece   *)
(* exactly as the code computes them character by character; a word that   *)
(* the code never looks into ("status", "application/json") is one piece.  *)
(***************************************************************************)
EXTENDS Integers, Sequences, FiniteSets, TLC

(***************************************************************************)
(* Bounds of the model.                                                    *)
(***************************************************************************)
\* longest remainder (in characters) after the prefix of a parametric path
MaxRem == 3
\* number of client connections in the server loop
MaxConns == 3
\* largest n a redirect-following client starts from
MaxRedirects == 15

(***************************************************************************)
(* State.                                                                  *)
(*   The server loop (run_server: HTTPServer.serve_forever, one thread):   *)
(*     sent      connection -> the request its client sent, NoRequest      *)
(*               before the client connects                                *)
(*     backlog   the connections waiting in the listen queue, in order     *)
(*     current   the connection the one server thread is handling, 0 when  *)
(*               it waits in accept                                        *)
(*     sleepLeft seconds the running handler still spends in time.sleep    *)
(*     log       the exchanges completed, in order: connection, request    *)
(*               and what the handler left on the connection               *)
(*     overlapped <<c, d>>: c connected while d's handler was asleep       *)
(*   One request through the handler:                                      *)
(*     request, outcome, pc ("received" -> "done")                             *)
(*   A client that follows redirects:                                      *)
(*     startN    the n of the /redirect/n it starts from                   *)
(*     target    the target of its next request                            *)
(*     hops      requests made so far                                      *)
(*     last      the outcome of its latest request                         *)
(*     cstate    "ready" (about to request), "got" (holds a response),     *)
(*               "done" (holds a final response)                           *)
(*   Each specification below runs one of the three and leaves the others  *)
(*   switched off.                                                         *)
(***************************************************************************)
VARIABLES sent, backlog, current, sleepLeft, log, overlapped,
          request, outcome, pc,
          startN, target, hops, last, cstate

serverVars == <<sent, backlog, current, sleepLeft, log, overlapped>>

handlerVars == <<request, outcome, pc>>

clientVars == <<startN, target, hops, last, cstate>>

vars == <<sent, backlog, current, sleepLeft, log, overlapped,
          request, outcome, pc, startN, target, hops, last, cstate>>

(***************************************************************************)
(* Text helpers.                                                           *)
(***************************************************************************)
Min(a, b) == IF a < b THEN a ELSE b

\* s.startswith(p)
StartsWith(s, p) == Len(s) >= Len(p) /\ SubSeq(s, 1, Len(p)) = p

\* the positions of piece c in s
Positions(s, c) == {i \in 1..Len(s) : s[i] = c}

SetMin(S) == CHOOSE x \in S : \A y \in S : x <= y

SetMax(S) == CHOOSE x \in S : \A y \in S : x >= y

\* s.find(any of cs, from): the first position >= from of a piece in cs, 0 if none
FindFirst(s, cs, from) ==
    LET hits == {i \in from..Len(s) : s[i] \in cs}
    IN  IF hits = {} THEN 0 ELSE SetMin(hits)

\* s.split('/')[-1]: everything after the last "/" (all of s when there is none)
LastSegment(s) ==
    LET hits == Positions(s, "/")
    IN  IF hits = {} THEN s ELSE SubSeq(s, SetMax(hits) + 1, Len(s))

\* len(text.encode('utf-8')) for ASCII text: the characters of all pieces
RECURSIVE TextLen(_)
TextLen(s) == IF s = <<>> THEN 0 ELSE Len(Head(s)) + TextLen(Tail(s))

(***************************************************************************)
(* int(str) and str(int), digit by digit.                                  *)
(***************************************************************************)
Digits == <<"0", "1", "2", "3", "4", "5", "6", "7", "8", "9">>

IsDigit(c) == \E d \in 1..10 : Digits[d] = c

DigitVal(c) == (CHOOSE d \in 1..10 : Digits[d] = c) - 1

RECURSIVE DigitsVal(_)
DigitsVal(ds) ==
    IF ds = <<>> THEN 0
    ELSE 10 * DigitsVal(SubSeq(ds, 1, Len(ds) - 1)) + DigitVal(ds[Len(ds)])

\* one piece standing for a run of 4301 decimal digits, the first not 0: one
\* digit more than int() converts (sys.get_int_max_str_digits() is 4300)
LongDigits == "<4301 digits>"

\* int(s): an optional sign, then decimal digits with single underscores
\* allowed between digits; anything else is ValueError, and so is a text of
\* more than 4300 digits (no piece of LongDigits is a digit)
ParseInt(s) ==
    LET signed == s # <<>> /\ s[1] \in {"+", "-"}
        number == IF signed THEN Tail(s) ELSE s
        ok     == /\ number # <<>>
                  /\ \A i \in 1..Len(number) : IsDigit(number[i]) \/ number[i] = "_"
                  /\ IsDigit(number[1])
                  /\ IsDigit(number[Len(number)])
                  /\ \A i \in 1..(Len(number) - 1) :
                        ~(number[i] = "_" /\ number[i + 1] = "_")
        ds     == SelectSeq(number, IsDigit)
    IN  IF ~ok THEN [ok |-> FALSE, val |-> 0]
        ELSE [ok |-> TRUE,
              val |-> IF signed /\ s[1] = "-" THEN 0 - DigitsVal(ds) ELSE DigitsVal(ds)]

RECURSIVE NatToText(_)
NatToText(n) ==
    IF n < 10 THEN <<Digits[n + 1]>>
    ELSE NatToText(n \div 10) \o <<Digits[(n % 10) + 1]>>

\* str(n) and f'{n}'
IntToText(n) == IF n < 0 THEN <<"-">> \o NatToText(0 - n) ELSE NatToText(n)

(***************************************************************************)
(* urllib.parse.urlparse and parse_qs, as far as the handler uses them.    *)
(***************************************************************************)
\* urlsplit of a request target: the fragment starts at the first "#", the
\* query at the first "?" before it.  (parse_request has already reduced a
\* leading "//" to "/", so a target has no network location.)
UrlSplit(url) ==
    LET hash   == FindFirst(url, {"#"}, 1)
        noFrag == IF hash = 0 THEN url ELSE SubSeq(url, 1, hash - 1)
        qm     == FindFirst(noFrag, {"?"}, 1)
    IN  [path  |-> IF qm = 0 THEN noFrag ELSE SubSeq(noFrag, 1, qm - 1),
         query |-> IF qm = 0 THEN <<>> ELSE SubSeq(noFrag, qm + 1, Len(noFrag))]

\* _splitparams: the path ends at the first ";" of its last segment
SplitParams(path) ==
    LET slashes == Positions(path, "/")
        from    == IF slashes = {} THEN 1 ELSE SetMax(slashes)
        semi    == FindFirst(path, {";"}, from)
    IN  IF semi = 0 THEN path ELSE SubSeq(path, 1, semi - 1)

\* urlparse(self.path).path
UrlPath(url) == SplitParams(UrlSplit(url).path)

\* urlparse(self.path).query
UrlQuery(url) == UrlSplit(url).query

\* query.split('&')
RECURSIVE SplitAmp(_)
SplitAmp(q) ==
    LET amp == FindFirst(q, {"&"}, 1)
    IN  IF amp = 0 THEN <<q>>
        ELSE <<SubSeq(q, 1, amp - 1)>> \o SplitAmp(SubSeq(q, amp + 1, Len(q)))

\* parse_qs(query).get(name, [default])[0]: the value of the first field
\* name=value with a non-blank value
QueryGet(q, name, default) ==
    LET fields == SplitAmp(q)
        eq(f)  == FindFirst(f, {"="}, 1)
        hit(f) == eq(f) # 0 /\ SubSeq(f, 1, eq(f) - 1) = name /\ eq(f) < Len(f)
        hits   == {i \in 1..Len(fields) : hit(fields[i])}
    IN  IF hits = {} THEN default
        ELSE LET f == fields[SetMin(hits)] IN SubSeq(f, eq(f) + 1, Len(f))

(***************************************************************************)
(* JSON values, json.dumps and json.loads.                                 *)
(* A value is [str |-> text], [int |-> n], [bool |-> b], [null |-> TRUE]   *)
(* [arr |-> <<value, ...>>] (a list)                                       *)
(* or [obj |-> <<<<key text, value>>, ...>>] (a dict, in insertion order). *)
(***************************************************************************)
Str(t) == [str |-> t]

Obj(members) == [obj |-> members]

\* the undecodable byte 0xFF, and U+FFFD, which decode(errors='replace') puts
\* in its place
BadByte == "<0xFF>"

ReplacementChar == "<U+FFFD>"

\* dict.get(key): the value under key, [null |-> TRUE] when the key is missing
ObjGet(o, key) ==
    LET hits == {i \in 1..Len(o.obj) : o.obj[i][1] = key}
    IN  IF hits = {} THEN [null |-> TRUE] ELSE o.obj[SetMin(hits)][2]

ObjHas(o, key) == \E i \in 1..Len(o.obj) : o.obj[i][1] = key

\* d[key] = value: a new key goes last, an old key keeps its place
ObjPut(members, key, value) ==
    LET hits == {i \in 1..Len(members) : members[i][1] = key}
    IN  IF hits = {} THEN Append(members, <<key, value>>)
        ELSE [members EXCEPT ![SetMin(hits)] = <<key, value>>]

\* json.dumps escapes (ensure_ascii): a quote, a backslash, U+FFFD
EscapePiece(c) ==
    CASE c = "\""            -> "\\\""
      [] c = "\\"            -> "\\\\"
      [] c = ReplacementChar -> "\\ufffd"
      [] OTHER               -> c

UnescapePiece(c) ==
    CASE c = "\\\""    -> "\""
      [] c = "\\\\"    -> "\\"
      [] c = "\\ufffd" -> ReplacementChar
      [] OTHER         -> c

EscapeText(t) == [i \in 1..Len(t) |-> EscapePiece(t[i])]

UnescapeText(t) == [i \in 1..Len(t) |-> UnescapePiece(t[i])]

\* json.dumps(value) with the default separators ", " and ": "
RECURSIVE JsonDumps(_)
RECURSIVE DumpMembers(_)
RECURSIVE DumpElements(_)
DumpElements(es) ==
    IF es = <<>> THEN <<>>
    ELSE JsonDumps(es[1])
         \o (IF Len(es) = 1 THEN <<>> ELSE <<",", " ">> \o DumpElements(Tail(es)))

DumpMembers(ms) ==
    IF ms = <<>> THEN <<>>
    ELSE <<"\"">> \o EscapeText(ms[1][1]) \o <<"\"", ":", " ">> \o JsonDumps(ms[1][2])
         \o (IF Len(ms) = 1 THEN <<>> ELSE <<",", " ">> \o DumpMembers(Tail(ms)))

JsonDumps(v) ==
    CASE "str"  \in DOMAIN v -> <<"\"">> \o EscapeText(v.str) \o <<"\"">>
      [] "int"  \in DOMAIN v -> IntToText(v.int)
      [] "bool" \in DOMAIN v -> IF v.bool THEN <<"true">> ELSE <<"false">>
      [] "null" \in DOMAIN v -> <<"null">>
      [] "obj"  \in DOMAIN v -> <<"{">> \o DumpMembers(v.obj) \o <<"}">>
      [] "arr"  \in DOMAIN v -> <<"[">> \o DumpElements(v.arr) \o <<"]">>

\* the scanner's whitespace skip
RECURSIVE SkipWs(_, _)
SkipWs(s, i) == IF i <= Len(s) /\ s[i] = " " THEN SkipWs(s, i + 1) ELSE i

\* the end of the run of digits that starts at i
RECURSIVE DigitsEnd(_, _)
DigitsEnd(s, i) == IF i <= Len(s) /\ IsDigit(s[i]) THEN DigitsEnd(s, i + 1) ELSE i

ParseFail == [ok |-> FALSE, val |-> [null |-> TRUE], next |-> 0]

\* json.scanner: one value starting at position i (strings, integers,
\* true/false/null, lists, objects)
RECURSIVE ScanValue(_, _)
RECURSIVE ScanMembers(_, _, _)
RECURSIVE ScanElements(_, _, _)
ScanElements(s, i, acc) ==
    \* i is at an element's first piece
    LET val   == ScanValue(s, i)
        after == IF val.ok THEN SkipWs(s, val.next) ELSE 0
    IN  IF ~val.ok \/ after > Len(s) THEN ParseFail
        ELSE IF s[after] = "]"
             THEN [ok |-> TRUE, val |-> [arr |-> Append(acc, val.val)], next |-> after + 1]
        ELSE IF s[after] = ","
             THEN ScanElements(s, SkipWs(s, after + 1), Append(acc, val.val))
        ELSE ParseFail

ScanMembers(s, i, acc) ==
    \* i is at a key's opening quote
    IF i > Len(s) \/ s[i] # "\"" THEN ParseFail
    ELSE LET key   == ScanValue(s, i)
             colon == IF key.ok THEN SkipWs(s, key.next) ELSE 0
         IN  IF ~key.ok \/ colon > Len(s) \/ s[colon] # ":" THEN ParseFail
             ELSE LET val   == ScanValue(s, SkipWs(s, colon + 1))
                      after == IF val.ok THEN SkipWs(s, val.next) ELSE 0
                      acc2  == ObjPut(acc, key.val.str, val.val)
                  IN  IF ~val.ok \/ after > Len(s) THEN ParseFail
                      ELSE IF s[after] = "}"
                           THEN [ok |-> TRUE, val |-> Obj(acc2), next |-> after + 1]
                      ELSE IF s[after] = ","
                           THEN ScanMembers(s, SkipWs(s, after + 1), acc2)
                      ELSE ParseFail

ScanValue(s, i) ==
    IF i > Len(s) THEN ParseFail
    ELSE CASE s[i] = "\"" ->
                LET close == FindFirst(s, {"\""}, i + 1)
                IN  IF close = 0 THEN ParseFail
                    ELSE [ok |-> TRUE,
                          val |-> Str(UnescapeText(SubSeq(s, i + 1, close - 1))),
                          next |-> close + 1]
           [] s[i] = "{" ->
                LET j == SkipWs(s, i + 1)
                IN  IF j <= Len(s) /\ s[j] = "}"
                    THEN [ok |-> TRUE, val |-> Obj(<<>>), next |-> j + 1]
                    ELSE ScanMembers(s, j, <<>>)
           [] s[i] = "[" ->
                LET j == SkipWs(s, i + 1)
                IN  IF j <= Len(s) /\ s[j] = "]"
                    THEN [ok |-> TRUE, val |-> [arr |-> <<>>], next |-> j + 1]
                    ELSE ScanElements(s, j, <<>>)
           [] s[i] = "-" \/ IsDigit(s[i]) ->
                LET neg   == s[i] = "-"
                    start == IF neg THEN i + 1 ELSE i
                    \* 0 | [1-9][0-9]*
                    stop  == IF start <= Len(s) /\ s[start] = "0" THEN start + 1
                             ELSE DigitsEnd(s, start)
                    n     == DigitsVal(SubSeq(s, start, stop - 1))
                IN  IF stop = start THEN ParseFail
                    ELSE [ok |-> TRUE,
                          val |-> [int |-> IF neg THEN 0 - n ELSE n],
                          next |-> stop]
           [] s[i] = "true"  -> [ok |-> TRUE, val |-> [bool |-> TRUE], next |-> i + 1]
           [] s[i] = "false" -> [ok |-> TRUE, val |-> [bool |-> FALSE], next |-> i + 1]
           [] s[i] = "null"  -> [ok |-> TRUE, val |-> [null |-> TRUE], next |-> i + 1]
           [] OTHER -> ParseFail

\* json.loads(bytes): decode as UTF-8 (UnicodeDecodeError on an undecodable
\* byte), then one value with nothing but whitespace around it
\* (JSONDecodeError otherwise)
JsonLoads(bytes) ==
    IF \E i \in 1..Len(bytes) : bytes[i] = BadByte
    THEN [res |-> "UnicodeDecodeError", val |-> [null |-> TRUE]]
    ELSE LET v == ScanValue(bytes, SkipWs(bytes, 1))
         IN  IF v.ok /\ SkipWs(bytes, v.next) = Len(bytes) + 1
             THEN [res |-> "ok", val |-> v.val]
             ELSE [res |-> "JSONDecodeError", val |-> [null |-> TRUE]]

\* bytes.decode('utf-8', errors='replace')
DecodeReplace(bytes) ==
    [i \in 1..Len(bytes) |-> IF bytes[i] = BadByte THEN ReplacementChar ELSE bytes[i]]

(***************************************************************************)
(* Requests and responses.                                                 *)
(* A request is [method, path, headers, body]: path is self.path (the raw  *)
(* request target), headers the received headers in order as               *)
(* <<name, value text>> pairs, body the bytes that follow the headers.     *)
(* An outcome is what the handler leaves on the connection: the status,    *)
(* the headers the handler sends, in order, and the body; slept is the     *)
(* time it spent in time.sleep; fault names the exception that left the    *)
(* handler before anything was written ("none": no exception).             *)
(***************************************************************************)
\* self.headers.get(name, default): the first header of that name
HeaderGet(headers, name, default) ==
    LET hits == {i \in 1..Len(headers) : headers[i][1] = name}
    IN  IF hits = {} THEN default ELSE headers[SetMin(hits)][2]

HasHeader(headers, name) == \E i \in 1..Len(headers) : headers[i][1] = name

\* dict(self.headers)
RECURSIVE HeaderMembers(_, _)
HeaderMembers(headers, acc) ==
    IF headers = <<>> THEN acc
    ELSE HeaderMembers(Tail(headers),
                       ObjPut(acc, <<Head(headers)[1]>>, Str(Head(headers)[2])))

HeadersDict(headers) == Obj(HeaderMembers(headers, <<>>))

Response(status, headers, body) ==
    [fault |-> "none", status |-> status, headers |-> headers, body |-> body,
     slept |-> 0]

\* an exception leaves the handler with nothing written; socketserver logs it
\* and closes the connection
Fault(exception) ==
    [fault |-> exception, status |-> 0, headers |-> <<>>, body |-> <<>>, slept |-> 0]

\* send_response(code); end_headers()
EmptyResponse(code) == Response(code, <<>>, <<>>)

DefaultMethods == <<"GET, POST, PUT, DELETE, OPTIONS">>

\* (mutant) the allowed methods and the allowed headers change places
add_cors_headers_swapped(req, origin, methods, headers, credentials) ==
    <<<<"Access-Control-Allow-Origin", origin>>,
      <<"Access-Control-Allow-Methods", headers>>,
      <<"Access-Control-Allow-Headers", methods>>>>
    \o (IF credentials THEN <<<<"Access-Control-Allow-Credentials", <<"true">>>>>>
        ELSE <<>>)
    \o <<<<"Access-Control-Max-Age", <<"86400">>>>>>

add_cors_headers(req, origin, methods, headers, credentials) ==
    <<<<"Access-Control-Allow-Origin",
        IF ~credentials THEN origin ELSE HeaderGet(req.headers, "Origin", origin)>>,
      <<"Access-Control-Allow-Methods", methods>>,
      <<"Access-Control-Allow-Headers", headers>>>>
    \o (IF credentials THEN <<<<"Access-Control-Allow-Credentials", <<"true">>>>>>
        ELSE <<>>)
    \o <<<<"Access-Control-Max-Age", <<"86400">>>>>>

\* (mutant) the policy sent under the report-only header name
add_csp_header_report_only(policy) ==
    <<<<"Content-Security-Policy-Report-Only", policy>>>>

add_csp_header(policy) == <<<<"Content-Security-Policy", policy>>>>

\* csp = <<>> is csp=None (and csp=''): no header
send_json_response(req, status_code, data, cors, csp) ==
    LET response == JsonDumps(data)
    IN  Response(status_code,
                 (IF cors THEN add_cors_headers(req, <<"*">>, DefaultMethods, <<"*">>, FALSE)
                  ELSE <<>>)
                 \o (IF csp # <<>> THEN add_csp_header(csp) ELSE <<>>)
                 \o <<<<"Content-Type", <<"application/json">>>>,
                      <<"Content-Length", IntToText(TextLen(response))>>>>,
                 response)

\* called without cors or csp everywhere; byteLen is len(text.encode('utf-8'))
send_text_response(status_code, text, byteLen, content_type) ==
    Response(status_code,
             <<<<"Content-Type", content_type>>,
               <<"Content-Length", IntToText(byteLen)>>>>,
             text)

\* f'http://{self.headers.get("Host")}{self.path}'; a missing Host prints None
EchoUrl(req) == <<"http://">> \o HeaderGet(req.headers, "Host", <<"None">>) \o req.path

(***************************************************************************)
(* do_GET, route by route, in the order of the elif chain.                 *)
(***************************************************************************)
JsonText(k) == <<k>>

\* /get
get_echo(req) ==
    send_json_response(req, 200,
        Obj(<<<<JsonText("method"), Str(<<"GET">>)>>,
              <<JsonText("url"), Str(EchoUrl(req))>>,
              <<JsonText("headers"), HeadersDict(req.headers)>>>>),
        FALSE, <<>>)

\* (mutant) only the codes of HTTP, 100 to 599, are passed through
get_status_range_checked(path) ==
    LET status_code == ParseInt(LastSegment(path))
    IN  IF status_code.ok /\ status_code.val >= 100 /\ status_code.val <= 599
        THEN EmptyResponse(status_code.val)
        ELSE EmptyResponse(400)

\* /status/<code>
get_status(path) ==
    LET status_code == ParseInt(LastSegment(path))
    IN  IF status_code.ok THEN EmptyResponse(status_code.val) ELSE EmptyResponse(400)

\* /headers
get_headers(req) ==
    send_json_response(req, 200,
        Obj(<<<<JsonText("headers"), HeadersDict(req.headers)>>>>), FALSE, <<>>)

\* /response-headers
get_response_headers(req) ==
    LET content_type ==
            QueryGet(UrlQuery(req.path), <<"Content-Type">>, <<"application/json">>)
    IN  Response(200, <<<<"Content-Type", content_type>>>>, <<"{", "}">>)

\* (mutant) the last redirect is given one hop too late: n > 0 for n > 1
get_redirect_off_by_one(req, path) ==
    LET remaining == ParseInt(LastSegment(path))
    IN  IF ~remaining.ok THEN EmptyResponse(400)
        ELSE IF remaining.val > 0
             THEN Response(302,
                      <<<<"Location",
                          <<"/", "redirect", "/">> \o IntToText(remaining.val - 1)>>>>,
                      <<>>)
        ELSE send_json_response(req, 200,
                 Obj(<<<<JsonText("redirected"), [bool |-> TRUE]>>>>), FALSE, <<>>)

\* (mutant) the redirect count kept in server memory: every redirect already
\* answered is taken off the count in the URL
get_redirect_counting(req, path) ==
    LET remaining == ParseInt(LastSegment(path))
        served    == Cardinality({i \in 1..Len(log) :
                                     log[i].outcome.status \in {200, 302}
                                     /\ StartsWith(log[i].req.path, <<"/", "redirect", "/">>)})
    IN  IF ~remaining.ok THEN EmptyResponse(400)
        ELSE IF remaining.val - served > 1
             THEN Response(302,
                      <<<<"Location",
                          <<"/", "redirect", "/">> \o IntToText(remaining.val - 1)>>>>,
                      <<>>)
        ELSE send_json_response(req, 200,
                 Obj(<<<<JsonText("redirected"), [bool |-> TRUE]>>>>), FALSE, <<>>)

\* /redirect/<n>
get_redirect(req, path) ==
    LET remaining == ParseInt(LastSegment(path))
    IN  IF ~remaining.ok THEN EmptyResponse(400)
        ELSE IF remaining.val > 1
             THEN Response(302,
                      <<<<"Location",
                          <<"/", "redirect", "/">> \o IntToText(remaining.val - 1)>>>>,
                      <<>>)
        ELSE send_json_response(req, 200,
                 Obj(<<<<JsonText("redirected"), [bool |-> TRUE]>>>>), FALSE, <<>>)

\* /json
get_json(req) ==
    send_json_response(req, 200,
        Obj(<<<<JsonText("slideshow"),
                Obj(<<<<JsonText("title"), Str(<<"Sample Slide Show">>)>>,
                      <<JsonText("slides"),
                        [arr |-> <<Obj(<<<<JsonText("title"),
                                           Str(<<"Wake up to WonderWidgets!">>)>>,
                                         <<JsonText("type"), Str(<<"all">>)>>>>)>>]>>>>)>>>>),
        FALSE, <<>>)

\* /html
HtmlText == "<!DOCTYPE html><html><body><h1>Test HTML</h1></body></html>"

get_html == send_text_response(200, <<HtmlText>>, Len(HtmlText), <<"text/html">>)

\* gzip.compress(data) and zlib.compress(data): the plain bytes in a frame
\* that names the codec; decompressing takes the frame off
Compress(codec, data) == <<codec, "(">> \o data \o <<")">>

Decompress(codec, bytes) ==
    IF Len(bytes) >= 3 /\ bytes[1] = codec THEN SubSeq(bytes, 3, Len(bytes) - 1)
    ELSE <<>>

\* len(gzip.compress(data)) and len(zlib.compress(data)) for the two fixed
\* payloads
GzipBytes == 51

DeflateBytes == 40

\* /gzip
get_gzip ==
    LET data == JsonDumps(Obj(<<<<JsonText("gzipped"), [bool |-> TRUE]>>,
                                <<JsonText("method"), Str(<<"GET">>)>>>>))
    IN  Response(200,
                 <<<<"Content-Type", <<"application/json">>>>,
                   <<"Content-Encoding", <<"gzip">>>>,
                   <<"Content-Length", IntToText(GzipBytes)>>>>,
                 Compress("gzip", data))

\* /deflate
get_deflate ==
    LET data == JsonDumps(Obj(<<<<JsonText("deflated"), [bool |-> TRUE]>>,
                                <<JsonText("method"), Str(<<"GET">>)>>>>))
    IN  Response(200,
                 <<<<"Content-Type", <<"application/json">>>>,
                   <<"Content-Encoding", <<"deflate">>>>,
                   <<"Content-Length", IntToText(DeflateBytes)>>>>,
                 Compress("deflate", data))

\* /encoding/utf8: the greeting in four scripts, 74 bytes in UTF-8
Utf8Greeting == "<Hello World! in Latin, Chinese, Cyrillic and Arabic script>"

Utf8GreetingBytes == 74

get_encoding_utf8 ==
    send_text_response(200, <<Utf8Greeting>>, Utf8GreetingBytes,
                       <<"text/html; charset=utf-8">>)

\* /cache/<seconds>
get_cache(path) ==
    LET seconds == ParseInt(LastSegment(path))
    IN  IF ~seconds.ok THEN EmptyResponse(400)
        ELSE Response(200,
                 <<<<"Cache-Control", <<"public, max-age=">> \o IntToText(seconds.val)>>,
                   <<"Content-Type", <<"application/json">>>>>>,
                 JsonDumps(Obj(<<<<JsonText("cached"), [bool |-> TRUE]>>>>)))

\* /delay/<seconds>: time.sleep raises ValueError on a negative length, which
\* the same except clause catches
get_delay(req, path) ==
    LET delay == ParseInt(LastSegment(path))
    IN  IF ~delay.ok \/ delay.val < 0 THEN EmptyResponse(400)
        ELSE [send_json_response(req, 200,
                  Obj(<<<<JsonText("delayed"), [int |-> delay.val]>>>>), FALSE, <<>>)
              EXCEPT !.slept = delay.val]

\* /cors/simple
get_cors_simple(req) ==
    send_json_response(req, 200,
        Obj(<<<<JsonText("cors"), Str(<<"simple">>)>>,
              <<JsonText("origin"), Str(HeaderGet(req.headers, "Origin", <<"none">>))>>>>),
        TRUE, <<>>)

\* /cors/credentials
get_cors_credentials(req) ==
    LET origin   == HeaderGet(req.headers, "Origin", <<"*">>)
        response == JsonDumps(Obj(<<<<JsonText("cors"), Str(<<"credentials">>)>>,
                                    <<JsonText("origin"), Str(origin)>>>>))
    IN  Response(200,
                 add_cors_headers(req, origin, DefaultMethods, <<"*">>, TRUE)
                 \o <<<<"Content-Type", <<"application/json">>>>,
                      <<"Content-Length", IntToText(TextLen(response))>>>>,
                 response)

\* the CSP endpoints: a fixed JSON body and, except for /csp/report, a policy
get_csp(req, name, extra, policy) ==
    send_json_response(req, 200,
        Obj(<<<<JsonText("csp"), Str(<<name>>)>>>> \o extra), FALSE, policy)

\* /csp/nonce/<value>
get_csp_nonce(req, path) ==
    LET nonce == LastSegment(path)
    IN  get_csp(req, "nonce", <<<<JsonText("nonce"), Str(nonce)>>>>,
                <<"script-src 'nonce-">> \o nonce \o <<"'">>)

\* /csp/hash
HashValue == "sha256-qznLcsROx4GACP2dm0UCKCzCG+HiZ1guq6ZZDob/Tng="

\* /csp/report
get_csp_report(req) ==
    send_json_response(req, 200,
        Obj(<<<<JsonText("received"), Str(<<"report">>)>>>>), FALSE, <<>>)

P(word) == <<"/", word>>

P2(a, b) == <<"/", a, "/", b>>

Prefix(word) == <<"/", word, "/">>

do_GET(req) ==
    LET path == UrlPath(req.path)
    IN  IF path = P("get") THEN get_echo(req)
        ELSE IF StartsWith(path, Prefix("status")) THEN get_status(path)
        ELSE IF path = P("headers") THEN get_headers(req)
        ELSE IF path = P("response-headers") THEN get_response_headers(req)
        ELSE IF StartsWith(path, Prefix("redirect")) THEN get_redirect(req, path)
        ELSE IF path = P("json") THEN get_json(req)
        ELSE IF path = P("html") THEN get_html
        ELSE IF path = P("gzip") THEN get_gzip
        ELSE IF path = P("deflate") THEN get_deflate
        ELSE IF path = P2("encoding", "utf8") THEN get_encoding_utf8
        ELSE IF StartsWith(path, Prefix("cache")) THEN get_cache(path)
        ELSE IF StartsWith(path, Prefix("delay")) THEN get_delay(req, path)
        ELSE IF path = P2("cors", "simple") THEN get_cors_simple(req)
        ELSE IF path = P2("cors", "credentials") THEN get_cors_credentials(req)
        ELSE IF path = P2("cors", "no-headers")
             THEN send_json_response(req, 200,
                      Obj(<<<<JsonText("cors"), Str(<<"blocked">>)>>>>), FALSE, <<>>)
        ELSE IF path = P2("cors", "custom-method")
             THEN send_json_response(req, 200,
                      Obj(<<<<JsonText("cors"), Str(<<"custom-method">>)>>>>), TRUE, <<>>)
        ELSE IF path = P2("csp", "default-src")
             THEN get_csp(req, "default-src", <<>>, <<"default-src 'self'">>)
        ELSE IF path = P2("csp", "script-src")
             THEN get_csp(req, "script-src", <<>>, <<"script-src 'self'">>)
        ELSE IF StartsWith(path, <<"/", "csp", "/", "nonce", "/">>)
             THEN get_csp_nonce(req, path)
        ELSE IF path = P2("csp", "hash")
             THEN get_csp(req, "hash", <<>>, <<"script-src '", HashValue, "'">>)
        ELSE IF path = P2("csp", "multiple")
             THEN get_csp(req, "multiple", <<>>,
                      <<"default-src 'self'; script-src 'self' 'unsafe-inline'; style-src 'self' 'unsafe-inline'">>)
        ELSE IF path = P2("csp", "report-uri")
             THEN get_csp(req, "report-uri", <<>>,
                      <<"default-src 'self'; report-uri /csp/report">>)
        ELSE IF path = P2("csp", "report") THEN get_csp_report(req)
        ELSE EmptyResponse(404)

(***************************************************************************)
(* do_POST, do_PUT, do_DELETE, do_PATCH, do_OPTIONS.                       *)
(***************************************************************************)
\* int(self.headers.get('Content-Length', 0))
ContentLength(req) ==
    IF HasHeader(req.headers, "Content-Length")
    THEN ParseInt(HeaderGet(req.headers, "Content-Length", <<>>))
    ELSE [ok |-> TRUE, val |-> 0]

\* self.rfile.read(n): the next n bytes of the connection; a negative n reads
\* to the end of the stream
ReadBody(req, n) ==
    IF n < 0 THEN req.body ELSE SubSeq(req.body, 1, Min(n, Len(req.body)))

do_POST(req) ==
    LET content_length == ContentLength(req)
        body   == ReadBody(req, content_length.val)
        path   == UrlPath(req.path)
        loaded == JsonLoads(body)
        data   == IF body = <<>> THEN Obj(<<>>)
                  ELSE IF loaded.res = "ok" THEN loaded.val
                  ELSE Obj(<<<<JsonText("raw"), Str(DecodeReplace(body))>>>>)
    IN  IF ~content_length.ok THEN Fault("ValueError")
        ELSE IF path = P("post")
             THEN IF body # <<>> /\ loaded.res = "UnicodeDecodeError"
                  THEN Fault("UnicodeDecodeError")
                  ELSE send_json_response(req, 200,
                           Obj(<<<<JsonText("method"), Str(<<"POST">>)>>,
                                 <<JsonText("url"), Str(EchoUrl(req))>>,
                                 <<JsonText("headers"), HeadersDict(req.headers)>>,
                                 <<JsonText("json"), data>>>>),
                           FALSE, <<>>)
        ELSE EmptyResponse(404)

\* do_PUT and do_PATCH differ in the path and the method they report
put_or_patch(req, route, method) ==
    LET content_length == ContentLength(req)
        body == ReadBody(req, content_length.val)
    IN  IF ~content_length.ok THEN Fault("ValueError")
        ELSE IF UrlPath(req.path) = P(route)
             THEN send_json_response(req, 200,
                      Obj(<<<<JsonText("method"), Str(<<method>>)>>,
                            <<JsonText("data"), Str(DecodeReplace(body))>>>>),
                      FALSE, <<>>)
        ELSE EmptyResponse(404)

do_PUT(req) == put_or_patch(req, "put", "PUT")

do_PATCH(req) == put_or_patch(req, "patch", "PATCH")

do_DELETE(req) ==
    IF UrlPath(req.path) = P("delete")
    THEN send_json_response(req, 200,
             Obj(<<<<JsonText("method"), Str(<<"DELETE">>)>>>>), FALSE, <<>>)
    ELSE EmptyResponse(404)

\* 'credentials' in path
Contains(path, word) == \E i \in 1..Len(path) : path[i] = word

do_OPTIONS(req) ==
    LET path == UrlPath(req.path)
        origin == HeaderGet(req.headers, "Origin", <<"*">>)
        requested_method ==
            HeaderGet(req.headers, "Access-Control-Request-Method", <<"GET">>)
        requested_headers ==
            HeaderGet(req.headers, "Access-Control-Request-Headers", <<"*">>)
    IN  IF StartsWith(path, Prefix("cors"))
        THEN Response(204,
                 IF Contains(path, "credentials")
                 THEN add_cors_headers(req, origin, requested_method,
                                       requested_headers, TRUE)
                 ELSE add_cors_headers(req, <<"*">>, DefaultMethods,
                                       requested_headers, FALSE),
                 <<>>)
        ELSE Response(200,
                 <<<<"Allow", <<"GET, POST, PUT, DELETE, PATCH, OPTIONS">>>>>>,
                 <<>>)

\* BaseHTTPRequestHandler calls do_<method>
Handle(req) ==
    CASE req.method = "GET"     -> do_GET(req)
      [] req.method = "POST"    -> do_POST(req)
      [] req.method = "PUT"     -> do_PUT(req)
      [] req.method = "DELETE"  -> do_DELETE(req)
      [] req.method = "PATCH"   -> do_PATCH(req)
      [] req.method = "OPTIONS" -> do_OPTIONS(req)

(***************************************************************************)
(* The requests the clients of the model send.                             *)
(***************************************************************************)
Request(method, path, headers, body) ==
    [method |-> method, path |-> path, headers |-> headers, body |-> body]

NoRequest == Request("", <<>>, <<>>, <<>>)

NoOutcome == Fault("pending")

Host == <<"Host", <<"127.0.0.1:8080">>>>

SiteOrigin == <<"https://a.example">>

\* header sets of a GET: none, Host, Host with an Origin
GetHeaderSets ==
    {<<>>, <<Host>>, <<Host, <<"Origin", SiteOrigin>>>>,
     <<Host, <<"Origin", <<"*">>>>>>, <<<<"Origin", SiteOrigin>>>>}

\* the characters of a path parameter
Alphabet == {"0", "1", "2", "-", "+", "_", "a", "/"}

Remainders == UNION {[1..k -> Alphabet] : k \in 0..MaxRem}

ParametricPrefixes ==
    {Prefix("status"), Prefix("redirect"), Prefix("cache"), Prefix("delay"),
     <<"/", "csp", "/", "nonce", "/">>}

ParametricPaths == {p \o r : p \in ParametricPrefixes, r \in Remainders}

LiteralPaths ==
    {P("get"), P("headers"), P("response-headers"), P("json"), P("html"),
     P("gzip"), P("deflate"), P2("encoding", "utf8"),
     P2("cors", "simple"), P2("cors", "credentials"), P2("cors", "no-headers"),
     P2("cors", "custom-method"),
     P2("csp", "default-src"), P2("csp", "script-src"), P2("csp", "hash"),
     P2("csp", "multiple"), P2("csp", "report-uri"), P2("csp", "report"),
     P2("csp", "nonce"), P("status"), P("nope"), <<"/">>,
     P("post"), P("put"), P("patch"), P("delete"),
     <<"/", "get", "#", "a">>,
     <<"/", "get", "?", "q", "=", "1">>,
     <<"/", "response-headers", "?", "Content-Type", "=", "text/html">>,
     <<"/", "response-headers", "?", "q", "=", "1", "&", "Content-Type", "=">>,
     <<"/", "status", "/", "2", "0", "0", "?", "q", "=", "a">>,
     <<"/", "status", "/", LongDigits>>,
     <<"/", "status", "/", "-", LongDigits>>,
     <<"/", "redirect", "/", LongDigits>>,
     <<"/", "csp", "/", "nonce", "/", "a", ";", "1">>}

GetRequests ==
    {Request("GET", p, h, <<>>) : p \in LiteralPaths, h \in GetHeaderSets}
    \cup {Request("GET", p, <<Host>>, <<>>) : p \in ParametricPaths}

\* request bodies: none, JSON values, text that is not JSON, an undecodable byte
Bodies ==
    {<<>>,
     <<"{", "\"", "x", "\"", ":", "1", "}">>,
     <<"1">>,
     <<"\"", "a", "\"">>,
     <<"[", "1", ",", " ", "2", "]">>,
     <<"a", "b", "c">>,
     <<"{", "\"", "x", "\"", ":">>,
     <<"0", "1">>,
     <<BadByte>>,
     <<"a", BadByte>>}

\* Content-Length: absent, 0, the length of the body, not a number
ContentLengthSets(body) ==
    {<<>>,
     <<<<"Content-Length", <<"0">>>>>>,
     <<<<"Content-Length", NatToText(Len(body))>>>>,
     <<<<"Content-Length", <<"a">>>>>>}

BodyPaths ==
    {P("post"), P("put"), P("patch"), P("get"), P("nope"),
     <<"/", "post", "?", "q", "=", "1">>}

BodyRequests ==
    UNION {{Request(m, p, <<Host>> \o cl, b) :
                m \in {"POST", "PUT", "PATCH"}, p \in BodyPaths,
                cl \in ContentLengthSets(b)} : b \in Bodies}

DeleteRequests ==
    {Request("DELETE", p, <<Host>>, <<>>) : p \in {P("delete"), P("get"), P("nope")}}

OptionsPaths ==
    {P2("cors", "simple"), P2("cors", "credentials"),
     <<"/", "cors", "/", "x", "-", "credentials">>,
     <<"/", "cors", "/", "credentials", "/", "a">>,
     Prefix("cors"), P("cors"), P("get"), P("credentials")}

PreflightHeaderSets ==
    {o \o m \o h :
        o \in {<<>>, <<<<"Origin", SiteOrigin>>>>, <<<<"Origin", <<"*">>>>>>},
        m \in {<<>>, <<<<"Access-Control-Request-Method", <<"PATCH">>>>>>},
        h \in {<<>>, <<<<"Access-Control-Request-Headers", <<"X-Custom">>>>>>}}

OptionsRequests ==
    {Request("OPTIONS", p, <<Host>> \o h, <<>>) :
        p \in OptionsPaths, h \in PreflightHeaderSets}

Requests == GetRequests \cup BodyRequests \cup DeleteRequests \cup OptionsRequests

\* the requests the clients of the server loop choose from
DelayRequest == Request("GET", <<"/", "delay", "/", "2">>, <<Host>>, <<>>)

GetRequest == Request("GET", P("get"), <<Host>>, <<>>)

RedirectRequest(n) == Request("GET", Prefix("redirect") \o IntToText(n), <<Host>>, <<>>)

ClientRequests ==
    {GetRequest, DelayRequest, RedirectRequest(2), RedirectRequest(1),
     Request("GET", P("gzip"), <<Host>>, <<>>),
     Request("POST", P("post"),
             <<Host, <<"Content-Length", <<"7">>>>>>,
             <<"{", "\"", "x", "\"", ":", "1", "}">>),
     Request("POST", P("post"), <<Host, <<"Content-Length", <<"a">>>>>>, <<>>)}

(***************************************************************************)
(* HandlerSpec: one request, any of Requests, through the handler.         *)
(***************************************************************************)
ServerOff ==
    /\ sent = [c \in 1..MaxConns |-> NoRequest]
    /\ backlog = <<>>
    /\ current = 0
    /\ sleepLeft = 0
    /\ log = <<>>
    /\ overlapped = {}

HandlerOff == request = NoRequest /\ outcome = NoOutcome /\ pc = "off"

ClientOff ==
    startN = 0 /\ target = <<>> /\ hops = 0 /\ last = NoOutcome /\ cstate = "off"

HandlerInit ==
    /\ request \in Requests
    /\ outcome = NoOutcome
    /\ pc = "received"
    /\ ServerOff
    /\ ClientOff

\* handle_one_request: parse_request, then do_<method>
HandleRequest ==
    /\ pc = "received"
    /\ outcome' = Handle(request)
    /\ pc' = "done"
    /\ UNCHANGED <<request, serverVars, clientVars>>

HandlerNext == HandleRequest

HandlerSpec == HandlerInit /\ [][HandlerNext]_vars

(***************************************************************************)
(* Spec: the server loop.  run_server builds an HTTPServer, which has no   *)
(* threading mix-in: serve_forever accepts one connection, runs its        *)
(* handler to the end (BaseHTTPRequestHandler speaks HTTP/1.0, one request *)
(* per connection), closes it, and only then accepts the next.             *)
(***************************************************************************)
Connected == {c \in 1..MaxConns : sent[c] # NoRequest}

\* the seconds the handler of r spends in time.sleep
SleepSeconds(r) == Handle(r).slept

Init ==
    /\ ServerOff
    /\ HandlerOff
    /\ ClientOff

\* a client connects and sends its request; the kernel queues the connection
Connect(c, r) ==
    /\ sent[c] = NoRequest
    /\ \A d \in 1..MaxConns : d < c => sent[d] # NoRequest
    /\ sent' = [sent EXCEPT ![c] = r]
    /\ backlog' = Append(backlog, c)
    /\ overlapped' = overlapped \cup
            (IF current # 0 /\ sleepLeft > 0 THEN {<<c, current>>} ELSE {})
    /\ UNCHANGED <<current, sleepLeft, log, handlerVars, clientVars>>

\* serve_forever takes the next connection once the previous handler has
\* returned, and the handler runs up to its time.sleep
Accept ==
    /\ current = 0
    /\ backlog # <<>>
    /\ current' = Head(backlog)
    /\ backlog' = Tail(backlog)
    /\ sleepLeft' = SleepSeconds(sent[Head(backlog)])
    /\ UNCHANGED <<sent, log, overlapped, handlerVars, clientVars>>

\* one second of time.sleep passes
SleepTick ==
    /\ current # 0
    /\ sleepLeft > 0
    /\ sleepLeft' = sleepLeft - 1
    /\ UNCHANGED <<sent, backlog, current, log, overlapped, handlerVars, clientVars>>

\* the handler writes its response (or leaves by an exception) and the
\* connection is closed
Respond ==
    /\ current # 0
    /\ sleepLeft = 0
    /\ log' = Append(log, [conn |-> current, req |-> sent[current],
                           outcome |-> Handle(sent[current])])
    /\ current' = 0
    /\ UNCHANGED <<sent, backlog, sleepLeft, overlapped, handlerVars, clientVars>>

Next ==
    \/ \E c \in 1..MaxConns, r \in ClientRequests : Connect(c, r)
    \/ Accept
    \/ SleepTick
    \/ Respond

Spec == Init /\ [][Next]_vars

(***************************************************************************)
(* RedirectSpec: a client that starts at /redirect/n and follows every     *)
(* Location it is given.  Client and server both keep running, so the next *)
(* step is taken whenever there is one (weak fairness).                    *)
(***************************************************************************)
RedirectInit ==
    /\ startN \in 0..MaxRedirects
    /\ target = Prefix("redirect") \o IntToText(startN)
    /\ hops = 0
    /\ last = NoOutcome
    /\ cstate = "ready"
    /\ ServerOff
    /\ HandlerOff

\* the targets of the chains: /redirect/0 .. /redirect/MaxRedirects
ChainTargets == {Prefix("redirect") \o IntToText(n) : n \in 0..MaxRedirects}

\* the handler's answer to GET of each chain target (the handler keeps no
\* state, so the answers are computed once)
ChainAnswers == [t \in ChainTargets |-> Handle(Request("GET", t, <<Host>>, <<>>))]

\* the client requests its target and the handler answers
ClientRequest ==
    /\ cstate = "ready"
    /\ target \in ChainTargets
    /\ last' = ChainAnswers[target]
    /\ hops' = hops + 1
    /\ cstate' = "got"
    /\ UNCHANGED <<startN, target, serverVars, handlerVars>>

\* a 302 sends the client to the Location; anything else ends the chain
ClientFollow ==
    /\ cstate = "got"
    /\ IF last.fault = "none" /\ last.status = 302 /\ HasHeader(last.headers, "Location")
       THEN /\ target' = HeaderGet(last.headers, "Location", <<>>)
            /\ cstate' = "ready"
       ELSE /\ cstate' = "done"
            /\ UNCHANGED target
    /\ UNCHANGED <<startN, hops, last, serverVars, handlerVars>>

RedirectNext == ClientRequest \/ ClientFollow

RedirectSpec == RedirectInit /\ [][RedirectNext]_vars /\ WF_vars(RedirectNext)

(***************************************************************************)
(* What a client sees of an outcome.                                       *)
(***************************************************************************)
\* the values of the response headers called name, in order
RECURSIVE HeaderValues(_, _)
HeaderValues(headers, name) ==
    IF headers = <<>> THEN <<>>
    ELSE (IF Head(headers)[1] = name THEN <<Head(headers)[2]>> ELSE <<>>)
         \o HeaderValues(Tail(headers), name)

\* a response was written, with this status
Answered(o, status) == o.fault = "none" /\ o.status = status

\* a response was written whose body is a JSON document
HasJsonBody(o) == o.fault = "none" /\ JsonLoads(o.body).res = "ok"

\* the JSON document in the body
JsonBody(o) == JsonLoads(o.body).val

\* the exchange of connection c is in the log
Served(c) == \E i \in 1..Len(log) : log[i].conn = c

\* the place of connection c's exchange in the log
LogIndex(c) == CHOOSE i \in 1..Len(log) : log[i].conn = c

(***************************************************************************)
(* C1: when GET /get arrives while the handler of GET /delay/2 is asleep,  *)
(* the /get response is returned before the /delay/2 response.             *)
(* Stated of the server loop: once the /delay/2 exchange is complete, the  *)
(* exchange of every /get that connected during its sleep is complete too, *)
(* and earlier in the log.                                                 *)
(***************************************************************************)
C1_GetReturnsBeforeDelay ==
    \A c \in 1..MaxConns, d \in 1..MaxConns :
        (/\ <<c, d>> \in overlapped
         /\ sent[c] = GetRequest
         /\ sent[d] = DelayRequest
         /\ Served(d))
        => (Served(c) /\ LogIndex(c) < LogIndex(d))

(***************************************************************************)
(* C2: a client that starts at GET /redirect/n (n >= 1) and follows each   *)
(* Location always terminates, after exactly n requests, at a 200 with     *)
(* body {"redirected": true}; every earlier response is a 302 to           *)
(* /redirect/(k-1) for the k just requested, so the count falls by one per *)
(* hop; /redirect/0 and /redirect/1 give the 200 at once.                  *)
(***************************************************************************)
RedirectedBody == Obj(<<<<JsonText("redirected"), [bool |-> TRUE]>>>>)

\* the requests a chain from /redirect/n takes
ChainLength(n) == IF n >= 1 THEN n ELSE 1

C2_ChainInvariant ==
    /\ hops <= ChainLength(startN)
    \* before each request the target is /redirect/(n - hops so far)
    /\ cstate = "ready" => target = <<"/", "redirect", "/">> \o IntToText(startN - hops)
    \* each response: 302 to the count less one while it is above 1, else the 200
    /\ cstate \in {"got", "done"} =>
            LET k == startN - (hops - 1)
            IN  IF k > 1
                THEN /\ Answered(last, 302)
                     /\ HeaderValues(last.headers, "Location")
                            = <<<<"/", "redirect", "/">> \o IntToText(k - 1)>>
                     /\ cstate # "done"
                ELSE /\ Answered(last, 200)
                     /\ HasJsonBody(last)
                     /\ JsonBody(last) = RedirectedBody
    /\ cstate = "done" => hops = ChainLength(startN)

IntegerPrefixes ==
    {Prefix("status"), Prefix("redirect"), Prefix("cache"), Prefix("delay")}

\* the remainder of the path after the prefix it starts with
RemainderAfter(path, prefix) == SubSeq(path, Len(prefix) + 1, Len(path))

\* the text of a non-negative integer
IsNonNegativeInteger(t) == ParseInt(t).ok /\ ParseInt(t).val >= 0

C3_BadParameterIs400 ==
    (pc = "done" /\ request.method = "GET") =>
        \A prefix \in IntegerPrefixes :
            (/\ StartsWith(UrlPath(request.path), prefix)
             /\ ~IsNonNegativeInteger(RemainderAfter(UrlPath(request.path), prefix)))
            => outcome = EmptyResponse(400)

(***************************************************************************)
(* C4: every request is answered by exactly one response and no handler    *)
(* ends in an unhandled fault; a POST /post body that is not valid JSON    *)
(* comes back through the raw-text fallback.                               *)
(***************************************************************************)
C4_NoUnhandledFault ==
    pc = "done" =>
        /\ outcome.fault = "none"
        /\ (/\ request.method = "POST"
            /\ UrlPath(request.path) = P("post")
            /\ ContentLength(request).ok
            /\ ReadBody(request, ContentLength(request).val) # <<>>
            /\ JsonLoads(ReadBody(request, ContentLength(request).val)).res # "ok")
           => /\ HasJsonBody(outcome)
              /\ ObjHas(ObjGet(JsonBody(outcome), JsonText("json")), JsonText("raw"))

(***************************************************************************)
(* C5: GET /cors/credentials and OPTIONS on a /cors/ path containing       *)
(* "credentials" answer with Access-Control-Allow-Credentials: true and    *)
(* the request's Origin as Access-Control-Allow-Origin; no response at all *)
(* carries Access-Control-Allow-Credentials: true together with            *)
(* Access-Control-Allow-Origin: *.                                         *)
(***************************************************************************)
IsCredentialsRequest(r) ==
    \/ r.method = "GET" /\ UrlPath(r.path) = P2("cors", "credentials")
    \/ /\ r.method = "OPTIONS"
       /\ StartsWith(UrlPath(r.path), Prefix("cors"))
       /\ Contains(UrlPath(r.path), "credentials")

AllowsCredentials(o) ==
    HeaderValues(o.headers, "Access-Control-Allow-Credentials") = <<<<"true">>>>

C5_CredentialsNeverWildcard ==
    pc = "done" =>
        /\ IsCredentialsRequest(request) =>
                /\ AllowsCredentials(outcome)
                /\ HasHeader(request.headers, "Origin") =>
                       HeaderValues(outcome.headers, "Access-Control-Allow-Origin")
                           = <<HeaderGet(request.headers, "Origin", <<>>)>>
        /\ ~(/\ AllowsCredentials(outcome)
             /\ <<"*">> \in {HeaderValues(outcome.headers, "Access-Control-Allow-Origin")[i] :
                               i \in 1..Len(HeaderValues(outcome.headers,
                                                         "Access-Control-Allow-Origin"))})

(***************************************************************************)
(* C6: OPTIONS on every path under /cors/ answers 204 with                 *)
(* Access-Control-Max-Age: 86400, Access-Control-Allow-Methods taken from  *)
(* the request's Access-Control-Request-Method and                         *)
(* Access-Control-Allow-Headers from its Access-Control-Request-Headers;   *)
(* without "credentials" in the path Access-Control-Allow-Origin is * and  *)
(* no Access-Control-Allow-Credentials is sent.                            *)
(***************************************************************************)
IsPreflight(r) == r.method = "OPTIONS" /\ StartsWith(UrlPath(r.path), Prefix("cors"))

\* what holds of every preflight answer, in the claim as in its amendment
PreflightCommon ==
    /\ Answered(outcome, 204)
    /\ outcome.body = <<>>
    /\ HeaderValues(outcome.headers, "Access-Control-Max-Age") = <<<<"86400">>>>
    /\ ~Contains(UrlPath(request.path), "credentials") =>
            /\ HeaderValues(outcome.headers, "Access-Control-Allow-Origin") = <<<<"*">>>>
            /\ HeaderValues(outcome.headers, "Access-Control-Allow-Credentials") = <<>>

\* the claim as stated: the allowed methods follow the requested method
C6_PreflightDerivedFromRequest ==
    (pc = "done" /\ IsPreflight(request)) =>
        /\ PreflightCommon
        /\ HasHeader(request.headers, "Access-Control-Request-Method") =>
                HeaderValues(outcome.headers, "Access-Control-Allow-Methods")
                    = <<HeaderGet(request.headers, "Access-Control-Request-Method", <<>>)>>
        /\ HasHeader(request.headers, "Access-Control-Request-Headers") =>
                HeaderValues(outcome.headers, "Access-Control-Allow-Headers")
                    = <<HeaderGet(request.headers, "Access-Control-Request-Headers", <<>>)>>

\* amended: the allowed methods are the requested method (GET when none is
\* requested) only on a path containing "credentials", and the fixed list
\* GET, POST, PUT, DELETE, OPTIONS on every other path; the allowed headers
\* are the requested headers (* when none are requested) on every path
C6_PreflightHeaders ==
    (pc = "done" /\ IsPreflight(request)) =>
        /\ PreflightCommon
        /\ HeaderValues(outcome.headers, "Access-Control-Allow-Methods")
              = <<IF Contains(UrlPath(request.path), "credentials")
                  THEN HeaderGet(request.headers, "Access-Control-Request-Method", <<"GET">>)
                  ELSE <<"GET, POST, PUT, DELETE, OPTIONS">>>>
        /\ HeaderValues(outcome.headers, "Access-Control-Allow-Headers")
              = <<HeaderGet(request.headers, "Access-Control-Request-Headers", <<"*">>)>>

\* a preflight of /cors/simple that asks for PATCH and X-Custom was answered
C6_Witness ==
    /\ pc = "done"
    /\ request.method = "OPTIONS"
    /\ request.path = P2("cors", "simple")
    /\ HeaderGet(request.headers, "Access-Control-Request-Method", <<>>) = <<"PATCH">>
    /\ HeaderGet(request.headers, "Access-Control-Request-Headers", <<>>) = <<"X-Custom">>
    /\ Answered(outcome, 204)

(***************************************************************************)
(* C7: every endpoint of the CSP family (GET /csp/default-src,             *)
(* /csp/script-src, /csp/nonce/{value}, /csp/hash, /csp/multiple,          *)
(* /csp/report-uri, /csp/report) answers 200 with a JSON body and exactly  *)
(* one Content-Security-Policy header; for /csp/nonce/{value} the header   *)
(* is script-src 'nonce-{value}', {value} being the path after             *)
(* /csp/nonce/.                                                            *)
(***************************************************************************)
NoncePrefix == <<"/", "csp", "/", "nonce", "/">>

IsCspRequest(r) ==
    /\ r.method = "GET"
    /\ \/ UrlPath(r.path) \in
            {P2("csp", "default-src"), P2("csp", "script-src"), P2("csp", "hash"),
             P2("csp", "multiple"), P2("csp", "report-uri"), P2("csp", "report")}
       \/ StartsWith(UrlPath(r.path), NoncePrefix)

NoncePolicy(value) == <<"script-src 'nonce-">> \o value \o <<"'">>

\* the claim as stated
C7_EveryCspEndpointSendsPolicy ==
    (pc = "done" /\ IsCspRequest(request)) =>
        /\ Answered(outcome, 200)
        /\ HasJsonBody(outcome)
        /\ Len(HeaderValues(outcome.headers, "Content-Security-Policy")) = 1
        /\ StartsWith(UrlPath(request.path), NoncePrefix) =>
                HeaderValues(outcome.headers, "Content-Security-Policy")
                    = <<NoncePolicy(RemainderAfter(UrlPath(request.path), NoncePrefix))>>

\* amended: /csp/report sends no Content-Security-Policy header, the other
\* six send exactly one; the nonce is the last "/"-separated segment of the
\* URL path
C7_CspPolicyHeader ==
    (pc = "done" /\ IsCspRequest(request)) =>
        /\ Answered(outcome, 200)
        /\ HasJsonBody(outcome)
        /\ HeaderValues(outcome.headers, "Content-Type") = <<<<"application/json">>>>
        /\ Len(HeaderValues(outcome.headers, "Content-Security-Policy"))
              = (IF UrlPath(request.path) = P2("csp", "report") THEN 0 ELSE 1)
        /\ StartsWith(UrlPath(request.path), NoncePrefix) =>
                HeaderValues(outcome.headers, "Content-Security-Policy")
                    = <<NoncePolicy(LastSegment(UrlPath(request.path)))>>

\* GET /csp/nonce/a/1 was answered with the nonce 1
C7_Witness ==
    /\ pc = "done"
    /\ request.method = "GET"
    /\ request.path = NoncePrefix \o <<"a", "/", "1">>
    /\ HeaderValues(outcome.headers, "Content-Security-Policy") = <<NoncePolicy(<<"1">>)>>

(***************************************************************************)
(* C8: POST /post, PUT /put and PATCH /patch answer 200 with a JSON body   *)
(* that reflects the method, the URL (http:// + Host + request path), all  *)
(* request headers as a mapping and the request body as a parsed value:    *)
(* the JSON value when the Content-Length bytes are valid JSON,            *)
(* {"raw": text} when they are not, an empty value when Content-Length is  *)
(* absent or zero.                                                         *)
(***************************************************************************)
IsBodyEcho(r) ==
    \/ r.method = "POST"  /\ UrlPath(r.path) = P("post")
    \/ r.method = "PUT"   /\ UrlPath(r.path) = P("put")
    \/ r.method = "PATCH" /\ UrlPath(r.path) = P("patch")

\* the Content-Length bytes of the request
SentBody(r) == ReadBody(r, ContentLength(r).val)

C8_BodyEchoReflectsRequest ==
    (pc = "done" /\ IsBodyEcho(request) /\ ContentLength(request).ok) =>
        /\ Answered(outcome, 200)
        /\ HasJsonBody(outcome)
        /\ ObjGet(JsonBody(outcome), JsonText("method")) = Str(<<request.method>>)
        /\ ObjGet(JsonBody(outcome), JsonText("url"))
              = Str(<<"http://">> \o HeaderGet(request.headers, "Host", <<>>) \o request.path)
        /\ ObjGet(JsonBody(outcome), JsonText("headers"))
              = Obj([i \in 1..Len(request.headers) |->
                        <<<<request.headers[i][1]>>, Str(request.headers[i][2])>>])
        /\ ObjGet(JsonBody(outcome), JsonText("json"))
              = (IF SentBody(request) = <<>> THEN Obj(<<>>)
                 ELSE IF JsonLoads(SentBody(request)).res = "ok"
                      THEN JsonLoads(SentBody(request)).val
                 ELSE Obj(<<<<JsonText("raw"), Str(DecodeReplace(SentBody(request)))>>>>))

(***************************************************************************)
(* C9: exactly one outcome per request, and every GET, POST, PUT, PATCH or *)
(* DELETE whose path is not a route registered for that method is answered *)
(* 404 with an empty body (a known path with the wrong method too).        *)
(***************************************************************************)
GetRoutes ==
    {P("get"), P("headers"), P("response-headers"), P("json"), P("html"),
     P("gzip"), P("deflate"), P2("encoding", "utf8"),
     P2("cors", "simple"), P2("cors", "credentials"), P2("cors", "no-headers"),
     P2("cors", "custom-method"),
     P2("csp", "default-src"), P2("csp", "script-src"), P2("csp", "hash"),
     P2("csp", "multiple"), P2("csp", "report-uri"), P2("csp", "report")}

GetPrefixRoutes == IntegerPrefixes \cup {NoncePrefix}

Registered(method, path) ==
    CASE method = "GET"    -> \/ path \in GetRoutes
                              \/ \E prefix \in GetPrefixRoutes : StartsWith(path, prefix)
      [] method = "POST"   -> path = P("post")
      [] method = "PUT"    -> path = P("put")
      [] method = "PATCH"  -> path = P("patch")
      [] method = "DELETE" -> path = P("delete")
      [] OTHER             -> TRUE

C9_UnroutedIs404 ==
    (/\ pc = "done"
     /\ request.method \in {"GET", "POST", "PUT", "PATCH", "DELETE"}
     /\ ~Registered(request.method, UrlPath(request.path)))
    => outcome = EmptyResponse(404)

IsIntegerText(t) ==
    LET ds == IF t # <<>> /\ t[1] = "-" THEN Tail(t) ELSE t
    IN  /\ ds # <<>>
        /\ \A i \in 1..Len(ds) : IsDigit(ds[i]) \/ ds[i] = LongDigits
        /\ Len(ds) > 1 => ds[1] # "0"
        /\ t # <<"-", "0">>

\* more digits than int() converts
HasLongDigits(t) == \E i \in 1..Len(t) : t[i] = LongDigits

IsStatusRequest(r) ==
    /\ r.method = "GET"
    /\ StartsWith(UrlPath(r.path), Prefix("status"))
    /\ IsIntegerText(RemainderAfter(UrlPath(r.path), Prefix("status")))

\* the response carries the status whose decimal text is the given text, no
\* header of the handler's and no body
StatusPassedThrough(o, text) ==
    /\ o.fault = "none"
    /\ IntToText(o.status) = text
    /\ o.headers = <<>>
    /\ o.body = <<>>

\* the claim as stated
C11_EveryIntegerCodePassedThrough ==
    (pc = "done" /\ IsStatusRequest(request)) =>
        StatusPassedThrough(outcome, RemainderAfter(UrlPath(request.path), Prefix("status")))

\* amended: every integer code of at most 4300 decimal digits, whatever its
\* sign and size, is passed through; a code of more digits is answered 400
C11_StatusPassthrough ==
    (pc = "done" /\ IsStatusRequest(request)) =>
        LET code == RemainderAfter(UrlPath(request.path), Prefix("status"))
        IN  IF HasLongDigits(code)
            THEN outcome = EmptyResponse(400)
            ELSE StatusPassedThrough(outcome, code)

\* GET /status/-12, a code no range of HTTP holds, was answered with -12
C11_Witness ==
    /\ pc = "done"
    /\ request.method = "GET"
    /\ request.path = Prefix("status") \o <<"-", "1", "2">>
    /\ outcome.fault = "none"
    /\ outcome.status = 0 - 12
    /\ outcome.body = <<>>

=============================================================================
